---------------------------- MODULE Spec2Model ----------------------------
(***************************************************************************)
(* Model of amis.fill_document (src/amis.py): the document composition    *)
(* routine that places downloaded photographs into the labelled cells of  *)
(* the photo-appendix table of a Word template, appends a signature       *)
(* section and saves the result to an output path.  Spec runs one call of *)
(* fill_document on arbitrary arguments.  AppSpec runs app.main           *)
(* (src/app.py): amis.run_automation with its UI-locating steps, then     *)
(* fill_document on what it returned, then the download offer.            *)
(*                                                                         *)
(* Text is a sequence of atoms: a word, a blank " " or a line break "\n". *)
(* The Vietnamese literals of the source are written in ASCII.            *)
(* A paragraph is [text, pics]; a cell is a sequence of paragraphs; a row *)
(* a sequence of cells; a table a sequence of rows.  The body paragraphs  *)
(* of the template are never read by fill_document, so a document is      *)
(* [tables, body] where body holds the blocks appended at the end.        *)
(***************************************************************************)
EXTENDS Integers, Sequences, FiniteSets, TLC

VARIABLES
    fs,              \* file system: path -> NoFile or the document stored there
    disk,            \* image and signature paths that exist on disk
    images,          \* argument images: the list of image paths
    signature_path,  \* argument signature_path: None or a path
    output_path,     \* argument output_path
    pc,              \* position inside fill_document
    err,             \* the exception that left the call, "" if none
    doc,             \* the opened python-docx Document, NoDoc before the open
    loaded,          \* the document as it was read from the template file
    target_table,    \* index in doc.tables of the target table, 0 for None
    ri, ci,          \* row and cell index of the scan of the target table
    pending,         \* the image paths the running inner loop has still to visit
    dirs,            \* TRUE once os.makedirs was called for the output directory
    app,             \* position inside app.main, "direct" when there is no app
    ui               \* run_automation: its step, the strategies tried, its exception

vars == <<fs, disk, images, signature_path, output_path, pc, err, doc, loaded,
          target_table, ri, ci, pending, dirs, app, ui>>

--------------------------------------------------------------------------
(* Bounds *)

MaxImages == 8

--------------------------------------------------------------------------
(* Text *)

Min(a, b) == IF a < b THEN a ELSE b

Whitespace == {" ", "\n"}

RECURSIVE LStrip(_)
LStrip(s) == IF s # <<>> /\ Head(s) \in Whitespace THEN LStrip(Tail(s)) ELSE s

RECURSIVE RStrip(_)
RStrip(s) ==
    IF s # <<>> /\ s[Len(s)] \in Whitespace
    THEN RStrip(SubSeq(s, 1, Len(s) - 1))
    ELSE s

\* str.strip()
Strip(s) == RStrip(LStrip(s))

\* sub in s
Contains(sub, s) ==
    \E i \in 0..(Len(s) - Len(sub)) : SubSeq(s, i + 1, i + Len(sub)) = sub

\* sep.join(parts)
RECURSIVE Join(_, _)
Join(parts, sep) ==
    IF parts = <<>> THEN <<>>
    ELSE IF Len(parts) = 1 THEN parts[1]
    ELSE parts[1] \o sep \o Join(Tail(parts), sep)

RECURSIVE Flatten(_)
Flatten(ss) == IF ss = <<>> THEN <<>> ELSE Head(ss) \o Flatten(Tail(ss))

\* PySlice that yields nothing when the range reaches past the end of the list
PySliceWholeRangeOnly(s, a, b) == IF b > Len(s) THEN <<>> ELSE SubSeq(s, a + 1, b)

\* seq[a:b] for 0 <= a <= b
PySlice(s, a, b) == SubSeq(s, Min(a, Len(s)) + 1, Min(b, Len(s)))

--------------------------------------------------------------------------
(* Literals of fill_document *)

MarkerPhuLuc == <<"Phu", " ", "luc">>
MarkerAnhTSSS == <<"Anh", " ", "TSSS">>

LabelSoDo == <<"Thong", " ", "tin", " ", "rao", " ", "ban/so", " ", "do">>
LabelMatTruoc == <<"Mat", " ", "truoc", " ", "tai", " ", "san">>
LabelTongThe == <<"Tong", " ", "the", " ", "tai", " ", "san">>
LabelDuong == <<"Duong", " ", "phia", " ", "truoc", " ", "tai", " ", "san">>
LabelAnhKhac == <<"Anh", " ", "khac">>

Labels == {LabelSoDo, LabelMatTruoc, LabelTongThe, LabelDuong, LabelAnhKhac}

HeadingPhuLuc == MarkerPhuLuc \o <<" ">> \o MarkerAnhTSSS
HeadingChuKy == <<"Chu", " ", "ky", " ", "can", " ", "bo", " ", "khao", " ", "sat">>
NoteChuKy == <<"[Khong", " ", "chen", " ", "duoc", " ", "chu", " ", "ky:", " ", "e]">>

template_path == "template.docx"
OtherOutput == "out/final.docx"

\* image paths are the numbers 1, 2, ...: images[i] is the path i
None == -1
SignatureFile == 0

\* what the file system holds at a path with no file, and the value of doc
\* before the template is opened
NoFile == [exists |-> FALSE, tables |-> <<>>, body |-> <<>>]
NoDoc == NoFile
File(tables, body) == [exists |-> TRUE, tables |-> tables, body |-> body]

--------------------------------------------------------------------------
(* Documents *)

Para(text) == [text |-> text, pics |-> <<>>]
Cell(text) == <<Para(text)>>
Block(kind, text, pics) == [kind |-> kind, text |-> text, pics |-> pics]

\* _Cell.text: the paragraphs' text joined by line breaks
CellText(cell) == Join([i \in 1..Len(cell) |-> cell[i].text], <<"\n">>)

TableA ==
    << <<Cell(HeadingPhuLuc)>>,
       <<Cell(LabelSoDo), Cell(<<>>)>>,
       <<Cell(LabelDuong), Cell(<<"old">>)>> >>

TableB ==
    << <<Cell(MarkerPhuLuc), Cell(MarkerAnhTSSS)>>,
       <<Cell(LabelMatTruoc), Cell(LabelTongThe), Cell(<<"x">>)>> >>

TableC ==
    << <<Cell(<<"x", " ">> \o MarkerAnhTSSS), Cell(MarkerPhuLuc \o <<" ", "1">>)>>,
       << <<Para(<<>>), Para(<<" ">> \o LabelAnhKhac \o <<" ">>)>>,
          <<Para(<<"old">>), Para(<<>>), Para(<<"more">>)>>,
          Cell(LabelTongThe) >>,
       <<Cell(LabelAnhKhac \o <<" ", "2">>), Cell(<<"keep">>)>> >>

TableD ==
    << <<Cell(HeadingPhuLuc), Cell(<<>>)>>,
       <<Cell(LabelMatTruoc), Cell(<<>>)>>,
       <<Cell(LabelMatTruoc), Cell(<<"x">>)>> >>

TableE ==
    << <<Cell(HeadingPhuLuc)>>,
       <<Cell(LabelSoDo), Cell(LabelMatTruoc), Cell(LabelTongThe), Cell(<<"x">>)>> >>

TablePlain == << <<Cell(LabelSoDo), Cell(<<"x">>)>> >>

TableSplit ==
    << <<Cell(<<"Phu">>), Cell(<<"luc", " ">> \o MarkerAnhTSSS)>>,
       <<Cell(LabelSoDo), Cell(<<"x">>)>> >>

TableOneMarker ==
    << <<Cell(MarkerAnhTSSS)>>, <<Cell(LabelMatTruoc), Cell(<<"x">>)>> >>

\* the table lists of the template documents the model is run on
Templates ==
    { <<>>,
      <<TablePlain>>,
      <<TableSplit, TableOneMarker>>,
      <<TableA>>,
      <<TablePlain, TableA, TableB>>,
      <<TableB, TableA>>,
      <<TableC>>,
      <<TableD>>,
      <<TableE>> }

--------------------------------------------------------------------------
(* fill_document *)

\* slot_map with the two-image slot of LabelDuong cut to one image
slot_mapShortRange(imgs) ==
    [l \in Labels |->
        CASE l = LabelSoDo -> PySlice(imgs, 0, 1)
          [] l = LabelMatTruoc -> PySlice(imgs, 1, 2)
          [] l = LabelTongThe -> PySlice(imgs, 2, 3)
          [] l = LabelDuong -> PySlice(imgs, 3, 4)
          [] l = LabelAnhKhac -> PySlice(imgs, 5, 7)]

slot_map(imgs) ==
    [l \in Labels |->
        CASE l = LabelSoDo -> PySlice(imgs, 0, 1)
          [] l = LabelMatTruoc -> PySlice(imgs, 1, 2)
          [] l = LabelTongThe -> PySlice(imgs, 2, 3)
          [] l = LabelDuong -> PySlice(imgs, 3, 5)
          [] l = LabelAnhKhac -> PySlice(imgs, 5, 7)]

table_has_phu_luc(tbl) ==
    LET cells == Flatten(tbl)
        text == Join([i \in 1..Len(cells) |-> CellText(cells[i])], <<"\n">>)
    IN Contains(MarkerPhuLuc, text) /\ Contains(MarkerAnhTSSS, text)

\* FindTarget without the break: the last matching table wins
RECURSIVE FindTargetNoBreak(_, _)
FindTargetNoBreak(tables, i) ==
    IF i > Len(tables) THEN 0
    ELSE LET later == FindTargetNoBreak(tables, i + 1)
         IN IF later # 0 THEN later
            ELSE IF table_has_phu_luc(tables[i]) THEN i ELSE 0

\* for tbl in doc.tables: if _table_has_phu_luc(tbl): target_table = tbl; break
RECURSIVE FindTarget(_, _)
FindTarget(tables, i) ==
    IF i > Len(tables) THEN 0
    ELSE IF table_has_phu_luc(tables[i]) THEN i
    ELSE FindTarget(tables, i + 1)

\* ClearText that empties the first paragraph only
ClearTextFirstParagraphOnly(cell) ==
    [i \in 1..Len(cell) |-> IF i = 1 /\ cell[i].text # <<>> THEN Para(<<>>) ELSE cell[i]]

\* for p in dest.paragraphs: if p.text: p.text = ""
ClearText(cell) ==
    [i \in 1..Len(cell) |-> IF cell[i].text # <<>> THEN Para(<<>>) ELSE cell[i]]

\* dest.paragraphs[0].add_run().add_picture(pth); dest.add_paragraph("")
AddPictureToCell(cell, pth) ==
    Append([cell EXCEPT ![1].pics = Append(@, pth)], Para(<<>>))

\* doc.add_picture(pth); doc.add_paragraph("")
AddPictureToBody(body, pth) ==
    body \o <<Block("paragraph", <<>>, <<pth>>), Block("paragraph", <<>>, <<>>)>>

\* the UI-locating steps of run_automation and their strategies, in the
\* order the code tries them
UISteps == {"more", "in_mau", "tick", "download"}

Strategies(step) ==
    CASE step = "more" ->
            <<"XPATH_MORE_BTN", "MORE_BTN_STRICT", "MORE_BTN_RELAX", "MORE_BTN_USER">>
      [] step = "in_mau" ->
            <<"XPATH_IN_MAU", "IN_MAU_STRICT", "IN_MAU_RELAX", "_click_in_mau_anywhere">>
      [] step = "tick" ->
            <<"XPATH_CHECKBOX_MAU3", "CHECKBOX_MAU3">>
      [] step = "download" ->
            <<"XPATH_DOWNLOAD_BLUE", "DOWNLOAD_BLUE", "execute_script">>

\* run_automation is not running
UiIdle == [step |-> "idle", log |-> [s \in UISteps |-> <<>>], exc |-> "", failed |-> ""]

Init ==
    /\ app = "direct"
    /\ ui = UiIdle
    /\ \E t \in {File(tables, <<>>) : tables \in Templates} \cup {NoFile} :
          fs = [p \in {template_path, OtherOutput} |->
                  IF p = template_path THEN t ELSE NoFile]
    /\ \E n \in 0..MaxImages : images = [i \in 1..n |-> i]
    /\ signature_path \in {None, SignatureFile}
    /\ disk \in SUBSET ({images[i] : i \in 1..Len(images)} \cup {SignatureFile})
    /\ signature_path = None => SignatureFile \notin disk
    /\ output_path \in {template_path, OtherOutput}
    /\ pc = "start"
    /\ err = ""
    /\ doc = NoDoc
    /\ loaded = NoDoc
    /\ target_table = 0
    /\ ri = 0
    /\ ci = 0
    /\ pending = <<>>
    /\ dirs = FALSE

\* CheckTemplate with the output directory made before the template is looked at
CheckTemplateAfterMakedirs ==
    /\ pc = "start"
    /\ dirs' = TRUE
    /\ IF ~fs[template_path].exists
       THEN pc' = "raised" /\ err' = "FileNotFoundError"
       ELSE pc' = "open" /\ err' = err
    /\ UNCHANGED <<app, ui>>
    /\ UNCHANGED <<fs, disk, images, signature_path, output_path, doc, loaded,
                   target_table, ri, ci, pending>>

\* if not os.path.exists(template_path): raise FileNotFoundError
CheckTemplate ==
    /\ pc = "start"
    /\ IF ~fs[template_path].exists
       THEN pc' = "raised" /\ err' = "FileNotFoundError"
       ELSE pc' = "open" /\ err' = err
    /\ UNCHANGED <<app, ui>>
    /\ UNCHANGED <<fs, disk, images, signature_path, output_path, doc, loaded,
                   target_table, ri, ci, pending, dirs>>

\* doc = Document(template_path), then the search for the target table
OpenDocument ==
    /\ pc = "open"
    /\ doc' = fs[template_path]
    /\ loaded' = fs[template_path]
    /\ target_table' = FindTarget(doc'.tables, 1)
    /\ IF target_table' # 0
       THEN pc' = "scan" /\ ri' = 1 /\ ci' = 0
       ELSE pc' = "fallback" /\ ri' = ri /\ ci' = ci
    /\ UNCHANGED <<app, ui>>
    /\ UNCHANGED <<fs, disk, images, signature_path, output_path, err,
                   pending, dirs>>

\* the loops over rows and cells move on to the next cell, or leave the table
NextCell ==
    LET tbl == doc.tables[target_table]
    IN IF ci + 1 < Len(tbl[ri]) THEN pc' = "scan" /\ ri' = ri /\ ci' = ci + 1
       ELSE IF ri < Len(tbl) THEN pc' = "scan" /\ ri' = ri + 1 /\ ci' = 0
       ELSE pc' = "sign" /\ ri' = ri /\ ci' = ci

\* ScanCell with the label read from the template as it was loaded, not from
\* the cell as it is now
ScanCellLabelFromTemplate ==
    /\ pc = "scan"
    /\ LET row == doc.tables[target_table][ri]
           label == Strip(CellText(loaded.tables[target_table][ri][ci + 1]))
       IN IF label \in DOMAIN slot_map(images) /\ ci + 1 < Len(row)
          THEN /\ doc' = [doc EXCEPT !.tables[target_table][ri][ci + 2] = ClearText(@)]
               /\ pending' = slot_map(images)[label]
               /\ IF pending' = <<>>
                  THEN NextCell
                  ELSE pc' = "place" /\ ri' = ri /\ ci' = ci
          ELSE /\ doc' = doc
               /\ pending' = pending
               /\ NextCell
    /\ UNCHANGED <<app, ui>>
    /\ UNCHANGED <<fs, disk, images, signature_path, output_path, err, loaded,
                   target_table, dirs>>

\* one turn of: for ci, cell in enumerate(row.cells), up to the loop over the
\* slot's images
ScanCell ==
    /\ pc = "scan"
    /\ LET row == doc.tables[target_table][ri]
           label == Strip(CellText(row[ci + 1]))
       IN IF label \in DOMAIN slot_map(images) /\ ci + 1 < Len(row)
          THEN /\ doc' = [doc EXCEPT !.tables[target_table][ri][ci + 2] = ClearText(@)]
               /\ pending' = slot_map(images)[label]
               /\ IF pending' = <<>>
                  THEN NextCell
                  ELSE pc' = "place" /\ ri' = ri /\ ci' = ci
          ELSE /\ doc' = doc
               /\ pending' = pending
               /\ NextCell
    /\ UNCHANGED <<app, ui>>
    /\ UNCHANGED <<fs, disk, images, signature_path, output_path, err, loaded,
                   target_table, dirs>>

\* the inner loop is over, or goes on with the next image of the slot
AfterSlotImage ==
    IF Tail(pending) = <<>> THEN NextCell ELSE pc' = "place" /\ ri' = ri /\ ci' = ci

\* SkipMissingSlotImage with dest.add_paragraph("") outside the existence test
SkipMissingSlotImagePlaceholder ==
    /\ pc = "place"
    /\ Head(pending) \notin disk
    /\ doc' = [doc EXCEPT !.tables[target_table][ri][ci + 2] = Append(@, Para(<<>>))]
    /\ pending' = Tail(pending)
    /\ AfterSlotImage
    /\ UNCHANGED <<app, ui>>
    /\ UNCHANGED <<fs, disk, images, signature_path, output_path, err,
                   loaded, target_table, dirs>>

\* for pth in slot_map[label]: os.path.exists(pth) is false
SkipMissingSlotImage ==
    /\ pc = "place"
    /\ Head(pending) \notin disk
    /\ pending' = Tail(pending)
    /\ AfterSlotImage
    /\ UNCHANGED <<app, ui>>
    /\ UNCHANGED <<fs, disk, images, signature_path, output_path, err, doc,
                   loaded, target_table, dirs>>

\* the image exists and add_picture returns
InsertSlotImage ==
    /\ pc = "place"
    /\ Head(pending) \in disk
    /\ doc' = [doc EXCEPT !.tables[target_table][ri][ci + 2] =
                              AddPictureToCell(@, Head(pending))]
    /\ pending' = Tail(pending)
    /\ AfterSlotImage
    /\ UNCHANGED <<app, ui>>
    /\ UNCHANGED <<fs, disk, images, signature_path, output_path, err, loaded,
                   target_table, dirs>>

\* the image exists and add_picture raises (the file is no image python-docx
\* can read); nothing catches the exception
SlotImageRaises ==
    /\ pc = "place"
    /\ Head(pending) \in disk
    /\ pc' = "raised"
    /\ err' = "ImageError"
    /\ UNCHANGED <<app, ui>>
    /\ UNCHANGED <<fs, disk, images, signature_path, output_path, doc, loaded,
                   target_table, ri, ci, pending, dirs>>

\* AppendHeading with the loop running over the seven slot-mapped images only
AppendHeadingSlotImagesOnly ==
    /\ pc = "fallback"
    /\ doc' = [doc EXCEPT !.body = Append(@, Block("heading", HeadingPhuLuc, <<>>))]
    /\ pending' = PySlice(images, 0, 7)
    /\ pc' = IF images = <<>> THEN "sign" ELSE "append"
    /\ UNCHANGED <<app, ui>>
    /\ UNCHANGED <<fs, disk, images, signature_path, output_path, err, loaded,
                   target_table, ri, ci, dirs>>

\* else: doc.add_heading("Phu luc Anh TSSS", level=2)
AppendHeading ==
    /\ pc = "fallback"
    /\ doc' = [doc EXCEPT !.body = Append(@, Block("heading", HeadingPhuLuc, <<>>))]
    /\ pending' = images
    /\ pc' = IF images = <<>> THEN "sign" ELSE "append"
    /\ UNCHANGED <<app, ui>>
    /\ UNCHANGED <<fs, disk, images, signature_path, output_path, err, loaded,
                   target_table, ri, ci, dirs>>

\* AfterBodyImage that leaves the loop after the first image on disk or not
AfterBodyImageBreak == pc' = "sign"

AfterBodyImage == pc' = IF Tail(pending) = <<>> THEN "sign" ELSE "append"

\* for pth in images: os.path.exists(pth) is false
SkipMissingBodyImage ==
    /\ pc = "append"
    /\ Head(pending) \notin disk
    /\ pending' = Tail(pending)
    /\ AfterBodyImage
    /\ UNCHANGED <<app, ui>>
    /\ UNCHANGED <<fs, disk, images, signature_path, output_path, err, doc,
                   loaded, target_table, ri, ci, dirs>>

InsertBodyImage ==
    /\ pc = "append"
    /\ Head(pending) \in disk
    /\ doc' = [doc EXCEPT !.body = AddPictureToBody(@, Head(pending))]
    /\ pending' = Tail(pending)
    /\ AfterBodyImage
    /\ UNCHANGED <<app, ui>>
    /\ UNCHANGED <<fs, disk, images, signature_path, output_path, err, loaded,
                   target_table, ri, ci, dirs>>

\* BodyImageRaises with the document saved on the way out, as a finally would
BodyImageRaisesAfterSave ==
    /\ pc = "append"
    /\ Head(pending) \in disk
    /\ pc' = "raised"
    /\ err' = "ImageError"
    /\ dirs' = TRUE
    /\ fs' = [fs EXCEPT ![output_path] = doc]
    /\ UNCHANGED <<app, ui>>
    /\ UNCHANGED <<disk, images, signature_path, output_path, doc, loaded,
                   target_table, ri, ci, pending>>

BodyImageRaises ==
    /\ pc = "append"
    /\ Head(pending) \in disk
    /\ pc' = "raised"
    /\ err' = "ImageError"
    /\ UNCHANGED <<app, ui>>
    /\ UNCHANGED <<fs, disk, images, signature_path, output_path, doc, loaded,
                   target_table, ri, ci, pending, dirs>>

\* doc.add_page_break(); doc.add_heading("Chu ky can bo khao sat", level=2)
SignatureSection ==
    /\ pc = "sign"
    /\ doc' = [doc EXCEPT !.body = @ \o <<Block("page_break", <<>>, <<>>),
                                          Block("heading", HeadingChuKy, <<>>)>>]
    /\ pc' = "signature"
    /\ UNCHANGED <<app, ui>>
    /\ UNCHANGED <<fs, disk, images, signature_path, output_path, err, loaded,
                   target_table, ri, ci, pending, dirs>>

\* if signature_path and os.path.exists(signature_path) is false: no else branch
SignatureAbsent ==
    /\ pc = "signature"
    /\ ~(signature_path # None /\ signature_path \in disk)
    /\ pc' = "save"
    /\ UNCHANGED <<app, ui>>
    /\ UNCHANGED <<fs, disk, images, signature_path, output_path, err, doc,
                   loaded, target_table, ri, ci, pending, dirs>>

\* try: doc.add_picture(signature_path, width=Inches(2))
SignatureInserted ==
    /\ pc = "signature"
    /\ signature_path # None /\ signature_path \in disk
    /\ doc' = [doc EXCEPT !.body = Append(@, Block("paragraph", <<>>, <<signature_path>>))]
    /\ pc' = "save"
    /\ UNCHANGED <<app, ui>>
    /\ UNCHANGED <<fs, disk, images, signature_path, output_path, err, loaded,
                   target_table, ri, ci, pending, dirs>>

\* SignatureFails without the try/except: the exception leaves the call
SignatureFailsUncaught ==
    /\ pc = "signature"
    /\ signature_path # None /\ signature_path \in disk
    /\ pc' = "raised"
    /\ err' = "ImageError"
    /\ UNCHANGED <<app, ui>>
    /\ UNCHANGED <<fs, disk, images, signature_path, output_path, doc, loaded,
                   target_table, ri, ci, pending, dirs>>

\* except Exception as e: doc.add_paragraph("[Khong chen duoc chu ky: e]");
\* Document.add_picture has appended its paragraph before the image is read
SignatureFails ==
    /\ pc = "signature"
    /\ signature_path # None /\ signature_path \in disk
    /\ doc' = [doc EXCEPT !.body = @ \o <<Block("paragraph", <<>>, <<>>),
                                          Block("paragraph", NoteChuKy, <<>>)>>]
    /\ pc' = "save"
    /\ UNCHANGED <<app, ui>>
    /\ UNCHANGED <<fs, disk, images, signature_path, output_path, err, loaded,
                   target_table, ri, ci, pending, dirs>>

\* os.makedirs(os.path.dirname(output_path) or ".", exist_ok=True); doc.save(output_path)
SaveDocument ==
    /\ pc = "save"
    /\ dirs' = TRUE
    /\ fs' = [fs EXCEPT ![output_path] = doc]
    /\ pc' = "done"
    /\ UNCHANGED <<app, ui>>
    /\ UNCHANGED <<disk, images, signature_path, output_path, err, doc, loaded,
                   target_table, ri, ci, pending>>

Next ==
    \/ CheckTemplate
    \/ OpenDocument
    \/ ScanCell
    \/ SkipMissingSlotImage
    \/ InsertSlotImage
    \/ SlotImageRaises
    \/ AppendHeading
    \/ SkipMissingBodyImage
    \/ InsertBodyImage
    \/ BodyImageRaises
    \/ SignatureSection
    \/ SignatureAbsent
    \/ SignatureInserted
    \/ SignatureFails
    \/ SaveDocument

Spec == Init /\ [][Next]_vars

TypeOK ==
    /\ pc \in {"idle", "start", "open", "scan", "place", "fallback", "append", "sign",
               "signature", "save", "done", "raised"}
    /\ err \in {"", "FileNotFoundError", "ImageError"}
    /\ dirs \in BOOLEAN
    /\ target_table \in 0..3

--------------------------------------------------------------------------
(* app.main and amis.run_automation *)

\* _download_images_from_detail looks at the first 8 img elements only
MaxDownloaded == 8

AppInit ==
    /\ app = "form"
    /\ ui = UiIdle
    /\ fs = [p \in {template_path, OtherOutput} |-> NoFile]
    /\ disk = {}
    /\ images = <<>>
    /\ signature_path = None
    /\ output_path = OtherOutput
    /\ pc = "idle"
    /\ err = ""
    /\ doc = NoDoc
    /\ loaded = NoDoc
    /\ target_table = 0
    /\ ri = 0
    /\ ci = 0
    /\ pending = <<>>
    /\ dirs = FALSE

fillvars == <<pc, err, doc, loaded, target_table, ri, ci, pending, dirs,
              signature_path, output_path>>

\* the button is pressed with a field or the signature missing: st.error, return
RejectInputs ==
    /\ app = "form"
    /\ app' = "rejected"
    /\ UNCHANGED <<ui, fs, disk, images, fillvars>>

\* the button is pressed with every input given: the signature is written to
\* the temporary directory and run_automation is called
StartAutomation ==
    /\ app = "form"
    /\ app' = "acquiring"
    /\ disk' = disk \cup {SignatureFile}
    /\ ui' = [UiIdle EXCEPT !.step = "login"]
    /\ UNCHANGED <<fs, images, fillvars>>

\* an exception leaves run_automation
Raise(exc, at) == ui' = [ui EXCEPT !.step = "raised", !.exc = exc, !.failed = at]

\* 1) login and 2) open the detail page
LoginAndOpenDetail ==
    /\ ui.step = "login"
    /\ ui' = [ui EXCEPT !.step = "preview"]
    /\ UNCHANGED <<app, fs, disk, images, fillvars>>

\* a wait.until or find_element of the login times out
LoginRaises ==
    /\ ui.step = "login"
    /\ Raise("TimeoutException", "login")
    /\ UNCHANGED <<app, fs, disk, images, fillvars>>

\* _open_print_preview_via_popover finds #popupexecution open and returns
PopupAlreadyOpen ==
    /\ ui.step = "preview"
    /\ ui' = [ui EXCEPT !.step = "choose"]
    /\ UNCHANGED <<app, fs, disk, images, fillvars>>

\* (A) the iframe or the top DOM is made the context; nothing raises here
PrepareContext ==
    /\ ui.step = "preview"
    /\ ui' = [ui EXCEPT !.step = "more"]
    /\ UNCHANGED <<app, fs, disk, images, fillvars>>

\* what follows a UI-locating step
AfterStep(step) ==
    CASE step = "more" -> "in_mau"
      [] step = "in_mau" -> "popup"
      [] step = "tick" -> "download"
      [] step = "download" -> "wait_docx"

\* the strategy the running step tries next
NextStrategy == Len(ui.log[ui.step]) + 1

Attempt(ok) == [strategy |-> Strategies(ui.step)[NextStrategy], ok |-> ok]

\* _try_click_xpath or _try_click (or _click_in_mau_anywhere) returns True:
\* the later strategies are not tried
StrategySucceeds ==
    /\ ui.step \in UISteps
    /\ Strategies(ui.step)[NextStrategy] # "execute_script"
    /\ ui' = [ui EXCEPT !.log[ui.step] = Append(@, Attempt(TRUE)),
                        !.step = AfterStep(ui.step)]
    /\ UNCHANGED <<app, fs, disk, images, fillvars>>

\* a strategy returns False and another one is left
StrategyFails ==
    /\ ui.step \in UISteps
    /\ NextStrategy < Len(Strategies(ui.step))
    /\ ui' = [ui EXCEPT !.log[ui.step] = Append(@, Attempt(FALSE))]
    /\ UNCHANGED <<app, fs, disk, images, fillvars>>

\* the last strategy of More, In mau or the checkbox returns False:
\* raise TimeoutException
LastStrategyFails ==
    /\ ui.step \in {"more", "in_mau", "tick"}
    /\ NextStrategy = Len(Strategies(ui.step))
    /\ ui' = [ui EXCEPT !.log[ui.step] = Append(@, Attempt(FALSE)),
                        !.step = "raised", !.exc = "TimeoutException",
                        !.failed = ui.step]
    /\ UNCHANGED <<app, fs, disk, images, fillvars>>

\* the last strategy of the download link: execute_script inside
\* try/except pass; whether it clicked or not, the code logs the click and
\* goes on to _wait_for_docx
DownloadScriptFallback ==
    /\ ui.step = "download"
    /\ NextStrategy = Len(Strategies(ui.step))
    /\ \E ok \in BOOLEAN :
          ui' = [ui EXCEPT !.log[ui.step] = Append(@, Attempt(ok)),
                           !.step = "wait_docx"]
    /\ UNCHANGED <<app, fs, disk, images, fillvars>>

\* (C) _wait_popupexecution_anywhere after the click on In mau
PopupAppears ==
    /\ ui.step = "popup"
    /\ ui' = [ui EXCEPT !.step = "choose"]
    /\ UNCHANGED <<app, fs, disk, images, fillvars>>

PopupMissing ==
    /\ ui.step = "popup"
    /\ Raise("TimeoutException", "popup")
    /\ UNCHANGED <<app, fs, disk, images, fillvars>>

\* _choose_template_and_download: the popup is there and its context is entered
PopupReady ==
    /\ ui.step = "choose"
    /\ ui' = [ui EXCEPT !.step = "tick"]
    /\ UNCHANGED <<app, fs, disk, images, fillvars>>

PopupNotReady ==
    /\ ui.step = "choose"
    /\ Raise("TimeoutException", "choose")
    /\ UNCHANGED <<app, fs, disk, images, fillvars>>

\* some strategy of the download step has clicked the link
DownloadClicked ==
    \E k \in 1..Len(ui.log["download"]) : ui.log["download"][k].ok

\* _wait_for_docx finds the downloaded .docx in the (fresh) download folder
DocxArrives ==
    /\ ui.step = "wait_docx"
    /\ DownloadClicked
    /\ \E t \in Templates : fs' = [fs EXCEPT ![template_path] = File(t, <<>>)]
    /\ ui' = [ui EXCEPT !.step = "images"]
    /\ UNCHANGED <<app, disk, images, fillvars>>

\* _wait_for_docx gives up: raise FileNotFoundError
DocxMissing ==
    /\ ui.step = "wait_docx"
    /\ Raise("FileNotFoundError", "wait_docx")
    /\ UNCHANGED <<app, fs, disk, images, fillvars>>

\* 5) _download_images_from_detail writes the images it could fetch, then
\* run_automation returns (template_path, images) and its locals are gone
DownloadImagesAndReturn ==
    /\ ui.step = "images"
    /\ app = "acquiring"
    /\ \E n \in 0..Min(MaxImages, MaxDownloaded) :
          /\ images' = [i \in 1..n |-> i]
          /\ disk' = disk \cup (1..n)
    /\ ui' = UiIdle
    /\ app' = "acquired"
    /\ UNCHANGED <<fs, fillvars>>

\* AcquisitionFailed without the return of line 73
AcquisitionFailedNoReturn ==
    /\ app = "acquiring"
    /\ ui.step = "raised"
    /\ app' = "acquired"
    /\ UNCHANGED <<ui, fs, disk, images, fillvars>>

\* except Exception as e: st.exception(e); return
AcquisitionFailed ==
    /\ app = "acquiring"
    /\ ui.step = "raised"
    /\ app' = "acquire_failed"
    /\ UNCHANGED <<ui, fs, disk, images, fillvars>>

\* amis.fill_document(template_path, images, sig_path, output_path)
StartComposition ==
    /\ app = "acquired"
    /\ app' = "composing"
    /\ pc' = "start"
    /\ signature_path' = SignatureFile
    /\ output_path' = OtherOutput
    /\ UNCHANGED <<ui, fs, disk, images, err, doc, loaded, target_table, ri, ci,
                   pending, dirs>>

\* except Exception as e: st.exception(e); return
CompositionFailed ==
    /\ app = "composing"
    /\ pc = "raised"
    /\ app' = "compose_failed"
    /\ UNCHANGED <<ui, fs, disk, images, fillvars>>

\* the output file is read and st.download_button is shown
OfferDownload ==
    /\ app = "composing"
    /\ pc = "done"
    /\ fs[output_path].exists
    /\ app' = "offered"
    /\ UNCHANGED <<ui, fs, disk, images, fillvars>>

\* the steps of fill_document that can be taken inside the app: the
\* template, the images and the signature it is given were just written
FillDocumentStep ==
    \/ CheckTemplate
    \/ OpenDocument
    \/ ScanCell
    \/ InsertSlotImage
    \/ SlotImageRaises
    \/ AppendHeading
    \/ InsertBodyImage
    \/ BodyImageRaises
    \/ SignatureSection
    \/ SignatureInserted
    \/ SignatureFails
    \/ SaveDocument

AppNext ==
    \/ RejectInputs
    \/ StartAutomation
    \/ LoginAndOpenDetail
    \/ LoginRaises
    \/ PopupAlreadyOpen
    \/ PrepareContext
    \/ StrategySucceeds
    \/ StrategyFails
    \/ LastStrategyFails
    \/ DownloadScriptFallback
    \/ PopupAppears
    \/ PopupMissing
    \/ PopupReady
    \/ PopupNotReady
    \/ DocxArrives
    \/ DocxMissing
    \/ DownloadImagesAndReturn
    \/ AcquisitionFailed
    \/ StartComposition
    \/ FillDocumentStep
    \/ CompositionFailed
    \/ OfferDownload

AppSpec == AppInit /\ [][AppNext]_vars

--------------------------------------------------------------------------
(* Properties *)

Running == pc \notin {"start", "open"} /\ loaded.exists

\* the pictures of a cell, in paragraph order
CellPics(cell) == Flatten([i \in 1..Len(cell) |-> cell[i].pics])

\* every image path that occurs as a picture somewhere in document d
DocPics(d) ==
    {d.body[i].pics[j] : i \in {k \in 1..Len(d.body) : Len(d.body[k].pics) = 1}, j \in {1}}
    \cup UNION {UNION {UNION {{CellPics(d.tables[t][r][c])[k] :
                                   k \in 1..Len(CellPics(d.tables[t][r][c]))} :
                              c \in 1..Len(d.tables[t][r])} :
                       r \in 1..Len(d.tables[t])} :
                t \in 1..Len(d.tables)}

\* C1: a call whose template path does not exist fails with FileNotFoundError
\* in its first step: the document is not opened, no directory is made and
\* no file is written, so the output path holds what it held before.
C1_MissingTemplateFailsFirst ==
    [][~fs[template_path].exists =>
          /\ pc' = "raised" /\ err' = "FileNotFoundError"
          /\ fs' = fs /\ doc' = NoDoc /\ loaded' = NoDoc /\ dirs' = FALSE]_vars

C1_Witness ==
    /\ pc = "raised" /\ err = "FileNotFoundError"
    /\ ~fs[output_path].exists /\ ~dirs /\ doc = NoDoc

\* C2: no step of fill_document changes the content of the template file.
C2_TemplateNeverModified ==
    [][fs'[template_path] = fs[template_path]]_vars

\* the tables of the template that contain both markers
Matching == {t \in 1..Len(loaded.tables) : table_has_phu_luc(loaded.tables[t])}

\* C3: the target is the first table in document order that contains both
\* markers, and no other table is ever changed; without such a table there
\* is no target, the call goes on and the appendix heading is appended.
C3_FirstMatchingTableOnly ==
    Running =>
        /\ Len(doc.tables) = Len(loaded.tables)
        /\ \A t \in 1..Len(doc.tables) :
              doc.tables[t] # loaded.tables[t] =>
                  /\ t \in Matching
                  /\ \A u \in Matching : t <= u
        /\ target_table # 0 =>
              /\ target_table \in Matching
              /\ \A u \in Matching : target_table <= u
              /\ \A i \in 1..Len(doc.body) : doc.body[i].text # HeadingPhuLuc
        /\ Matching = {} =>
              /\ target_table = 0
              /\ err # "FileNotFoundError"
              /\ pc # "fallback" =>
                    doc.body # <<>> /\ doc.body[1] = Block("heading", HeadingPhuLuc, <<>>)
        /\ Matching # {} => target_table # 0

C3_Witness ==
    /\ pc = "done"
    /\ Cardinality(Matching) = 2
    /\ doc.tables[target_table] # loaded.tables[target_table]
    /\ \E u \in Matching : u > target_table /\ doc.tables[u] = loaded.tables[u]

\* the index range [SlotLo, SlotHi) of the image list that belongs to a label
SlotLo(l) ==
    CASE l = LabelSoDo -> 0 [] l = LabelMatTruoc -> 1 [] l = LabelTongThe -> 2
      [] l = LabelDuong -> 3 [] l = LabelAnhKhac -> 5

SlotHi(l) ==
    CASE l = LabelSoDo -> 1 [] l = LabelMatTruoc -> 2 [] l = LabelTongThe -> 3
      [] l = LabelDuong -> 5 [] l = LabelAnhKhac -> 7

\* the supplied images whose list index falls in the range of label l
Supplied(l) == {i \in 1..Len(images) : SlotLo(l) < i /\ i <= SlotHi(l)}

InRange(l) == [k \in 1..Cardinality(Supplied(l)) |-> images[SlotLo(l) + k]]

Existing(seq) == SelectSeq(seq, LAMBDA p : p \in disk)

\* the image placement is over and the call has not raised
Placed == Running /\ pc \in {"sign", "signature", "save", "done"}

\* cell c (counted from 1) of row r of the template's target table holds
\* exactly a slot label, blanks aside, and has a following cell
LabelCell(r, c) ==
    LET row == loaded.tables[target_table][r]
    IN c < Len(row) /\ Strip(CellText(row[c])) \in Labels

LabelOf(r, c) == Strip(CellText(loaded.tables[target_table][r][c]))

\* the label cells the scan reads as labels: those that are not the cell
\* next to a label cell the scan has read just before
RECURSIVE ReadAsLabel(_, _)
ReadAsLabel(r, c) ==
    /\ c >= 1
    /\ LabelCell(r, c)
    /\ ~ReadAsLabel(r, c - 1)

\* the cell after (r, c) holds the pictures pics in its first paragraph,
\* one added empty paragraph for each of them, and no text
Filled(r, c, pics) ==
    LET before == loaded.tables[target_table][r][c + 1]
        after == doc.tables[target_table][r][c + 1]
    IN /\ Len(after) = Len(before) + Len(pics)
       /\ after[1].pics = pics
       /\ CellPics(after) = pics
       /\ \A i \in 1..Len(after) : after[i].text = <<>>
       /\ \A i \in (Len(before) + 1)..Len(after) : after[i] = Para(<<>>)

ScenarioOK ==
    (loaded.tables = <<TableA>> /\ images = <<1, 2>> /\ disk = {1, 2}) =>
        /\ doc.tables[1][2][2] = <<[text |-> <<>>, pics |-> <<1>>], Para(<<>>)>>
        /\ 2 \notin DocPics(doc)

\* C4 as stated: every cell of the target table whose trimmed text is a slot
\* label and that has a following cell gets its min(N, range length) images,
\* all on disk, into the following cell, an empty paragraph per image, and
\* the following cell's text removed.
C4_EveryLabelCellFilled ==
    (Placed /\ target_table # 0) =>
        /\ \A r \in 1..Len(loaded.tables[target_table]) :
             \A c \in 1..Len(loaded.tables[target_table][r]) :
                (LabelCell(r, c) /\ \A i \in Supplied(LabelOf(r, c)) : images[i] \in disk) =>
                    /\ Len(InRange(LabelOf(r, c))) =
                          Min(Cardinality(Supplied(LabelOf(r, c))),
                              SlotHi(LabelOf(r, c)) - SlotLo(LabelOf(r, c)))
                    /\ Filled(r, c, InRange(LabelOf(r, c)))
        /\ ScenarioOK

\* C4 amended: the same for every such cell that is not itself the cell next
\* to a label cell the scan has just processed (the text of that cell was
\* cleared before the scan read it).
C4_EveryReadLabelCellFilled ==
    (Placed /\ target_table # 0) =>
        /\ \A r \in 1..Len(loaded.tables[target_table]) :
             \A c \in 1..Len(loaded.tables[target_table][r]) :
                (ReadAsLabel(r, c) /\ \A i \in Supplied(LabelOf(r, c)) : images[i] \in disk) =>
                    /\ Len(InRange(LabelOf(r, c))) =
                          Min(Cardinality(Supplied(LabelOf(r, c))),
                              SlotHi(LabelOf(r, c)) - SlotLo(LabelOf(r, c)))
                    /\ Filled(r, c, InRange(LabelOf(r, c)))
        /\ ScenarioOK

C4_Witness ==
    /\ pc = "done" /\ target_table # 0
    /\ {4, 5} \subseteq disk
    /\ \E r \in 1..Len(loaded.tables[target_table]) :
          /\ ReadAsLabel(r, 1)
          /\ LabelOf(r, 1) = LabelDuong
          /\ loaded.tables[target_table][r][2] = Cell(<<"old">>)
          /\ fs[output_path].tables[target_table][r][2] =
                <<[text |-> <<>>, pics |-> <<4, 5>>], Para(<<>>), Para(<<>>)>>

\* the body the fallback branch has built from the image list seq
FallbackBody(seq) ==
    <<Block("heading", HeadingPhuLuc, <<>>)>> \o
    Flatten([k \in 1..Len(Existing(seq)) |->
                <<Block("paragraph", <<>>, <<Existing(seq)[k]>>),
                  Block("paragraph", <<>>, <<>>)>>])

\* C5: when no table holds both markers, the body gets the appendix heading
\* and then every image of the list that is on disk, in list order, each
\* followed by an empty paragraph; no table is changed.
C5_FallbackInsertsEveryExistingImage ==
    (Running /\ Matching = {}) =>
        /\ doc.tables = loaded.tables
        /\ pc \in {"append", "raised"} =>
              doc.body = FallbackBody(SubSeq(images, 1, Len(images) - Len(pending)))
        /\ Placed =>
              SubSeq(doc.body, 1, 1 + 2 * Len(Existing(images))) = FallbackBody(images)
        /\ pc = "done" => fs[output_path] = doc

C5_Witness ==
    /\ pc = "done" /\ Matching = {}
    /\ Len(images) >= 8
    /\ 1 \notin disk /\ {2, 8} \subseteq disk
    /\ loaded.tables # <<>>
    /\ fs[output_path].body[2] = Block("paragraph", <<>>, <<2>>)

\* C6: an image that is not on disk when its turn comes is passed over in
\* both branches: the step changes nothing in the document and raises
\* nothing, the loop goes on, and the saved document holds neither a picture
\* nor an added paragraph for it.
C6_MissingImagesSkipped ==
    /\ [][(pc \in {"place", "append"} /\ Head(pending) \notin disk) =>
              /\ doc' = doc
              /\ err' = ""
              /\ pc' \in {"place", "append", "scan", "sign"}
              /\ pending' = Tail(pending)]_vars
    /\ [](pc = "done" =>
              /\ fs[output_path] = doc
              /\ DocPics(doc) \subseteq disk
              /\ \A t \in 1..Len(doc.tables) :
                    \A r \in 1..Len(doc.tables[t]) :
                       \A c \in 1..Len(doc.tables[t][r]) :
                          Len(doc.tables[t][r][c]) =
                              Len(loaded.tables[t][r][c]) + Len(CellPics(doc.tables[t][r][c]))
              /\ LET k == Cardinality(DocPics(doc) \ {SignatureFile})
                 IN IF target_table = 0
                    THEN doc.body[2 * k + 2].kind = "page_break"
                    ELSE doc.body[1].kind = "page_break")

C6_Witness ==
    /\ pc = "done" /\ target_table # 0
    /\ 4 \notin disk /\ 5 \in disk
    /\ 5 \in DocPics(fs[output_path])

SignaturePicture == Block("paragraph", <<>>, <<SignatureFile>>)
SignatureNote == Block("paragraph", NoteChuKy, <<>>)

HasNote(body) == \E i \in 1..Len(body) : body[i] = SignatureNote

\* C7: when the signature file exists, the signature step never raises: it
\* ends with the picture, or, if the insertion raised, with the note
\* paragraph and no signature picture; the call goes on to the save and the
\* saved document holds the note.
C7_SignatureFailureCaught ==
    /\ [][(pc = "signature" /\ signature_path # None /\ signature_path \in disk) =>
              /\ err' = ""
              /\ pc' = "save"
              /\ \/ doc'.body = Append(doc.body, SignaturePicture)
                 \/ /\ doc'.body[Len(doc'.body)] = SignatureNote
                    /\ SubSeq(doc'.body, 1, Len(doc.body)) = doc.body
                    /\ SignatureFile \notin DocPics(doc')]_vars
    /\ [](HasNote(doc.body) =>
              /\ err = ""
              /\ pc \in {"save", "done"}
              /\ pc = "save" => ENABLED SaveDocument
              /\ pc = "done" => fs[output_path] = doc)

C7_Witness ==
    /\ pc = "done" /\ err = ""
    /\ SignatureFile \in disk
    /\ HasNote(fs[output_path].body)
    /\ SignatureFile \notin DocPics(fs[output_path])

\* C8: with no signature path, or one that is not on disk, the saved document
\* holds the signature heading followed by a placeholder paragraph that
\* notes the absence.
C8_PlaceholderWhenNoSignature ==
    (pc = "done" /\ (signature_path = None \/ signature_path \notin disk)) =>
        LET body == fs[output_path].body
        IN \E i \in 1..(Len(body) - 1) :
              /\ body[i] = Block("heading", HeadingChuKy, <<>>)
              /\ body[i + 1].kind = "paragraph"
              /\ body[i + 1].text # <<>>

\* C9: an exception leaves no output: the file system changes only in the
\* final save of a call that did not raise, a raise changes no file and
\* makes no directory, and nothing runs after a raise or after the save; so
\* a file at the output path means that every earlier step completed.
C9_NoPartialOutput ==
    /\ [][/\ fs' # fs => (pc = "save" /\ pc' = "done" /\ err' = "")
          /\ pc' = "raised" => (err' # "" /\ fs' = fs /\ dirs' = dirs)
          /\ pc \notin {"raised", "done"}]_vars
    /\ [](/\ err # "" => (pc = "raised" /\ ~dirs /\ ~fs[OtherOutput].exists
                            /\ fs[template_path] = loaded)
          /\ (fs[OtherOutput].exists \/ dirs
                 \/ (loaded.exists /\ fs[template_path] # loaded)) =>
                /\ pc = "done" /\ err = "" /\ pending = <<>>
                /\ fs[output_path] = doc
                /\ \E i \in 1..Len(doc.body) : doc.body[i].text = HeadingChuKy)

C9_Witness ==
    /\ pc = "raised" /\ err = "ImageError"
    /\ target_table # 0
    /\ doc.tables # loaded.tables
    /\ output_path = OtherOutput
    /\ ~fs[OtherOutput].exists

\* the label the scan has read at its current cell
CurrentLabel == Strip(CellText(loaded.tables[target_table][ri][ci + 1]))

\* C10: for every length of the image list each slot of the mapping holds
\* exactly the images whose index lies in the slot's range and in the list,
\* possibly none; the inner loop runs over them; the only exception after
\* the open is an existing image that cannot be inserted; and once the table
\* is done every processed label's next cell holds the images of its range
\* that are on disk.
C10_ShortListsYieldShortSlots ==
    /\ \A l \in Labels :
          /\ slot_map(images)[l] = InRange(l)
          /\ Len(slot_map(images)[l]) <= SlotHi(l) - SlotLo(l)
    /\ (Running /\ pc = "place") =>
          /\ pending # <<>>
          /\ \E k \in 1..Len(InRange(CurrentLabel)) :
                pending = SubSeq(InRange(CurrentLabel), k, Len(InRange(CurrentLabel)))
    /\ (Running /\ pc = "raised") =>
          err = "ImageError" /\ pending # <<>> /\ Head(pending) \in disk
    /\ (Placed /\ target_table # 0) =>
          \A r \in 1..Len(loaded.tables[target_table]) :
             \A c \in 1..Len(loaded.tables[target_table][r]) :
                ReadAsLabel(r, c) => Filled(r, c, Existing(InRange(LabelOf(r, c))))

C10_Witness ==
    /\ pc = "done" /\ target_table # 0
    /\ Len(images) = 4 /\ 4 \in disk
    /\ InRange(LabelAnhKhac) = <<>>
    /\ \E r \in 1..Len(loaded.tables[target_table]) :
          /\ ReadAsLabel(r, 1)
          /\ LabelOf(r, 1) = LabelDuong
          /\ CellPics(fs[output_path].tables[target_table][r][2]) = <<4>>

PageBreak == Block("page_break", <<>>, <<>>)
SignatureHeading == Block("heading", HeadingChuKy, <<>>)

PageBreaks(body) == {i \in 1..Len(body) : body[i].kind = "page_break"}

\* C12: in both branches the page break and the signature heading are
\* appended when the image placement is over (no image left to visit, the
\* scan at the last cell of the target table) and before the save; after
\* them the tables and the pictures of the images no longer change; the
\* file system is written once, in the step that ends the call.
C12_SignatureSectionThenSave ==
    /\ []((Running /\ pc = "sign") =>
             /\ pending = <<>>
             /\ PageBreaks(doc.body) = {}
             /\ target_table # 0 =>
                   /\ ri = Len(doc.tables[target_table])
                   /\ ci + 1 = Len(doc.tables[target_table][ri]))
    /\ []((Running /\ pc \in {"scan", "place", "fallback", "append", "raised"}) =>
             PageBreaks(doc.body) = {})
    /\ []((Running /\ pc \in {"signature", "save", "done"}) =>
             \E i \in 1..(Len(doc.body) - 1) :
                /\ PageBreaks(doc.body) = {i}
                /\ doc.body[i + 1] = SignatureHeading
                /\ \A j \in 1..(i - 1) : doc.body[j].text # HeadingChuKy)
    /\ [][pc = "sign" =>
             /\ doc'.body = doc.body \o <<PageBreak, SignatureHeading>>
             /\ doc'.tables = doc.tables
             /\ pc' = "signature"]_vars
    /\ [][(pc \in {"signature", "save"}) =>
             /\ doc'.tables = doc.tables
             /\ SubSeq(doc'.body, 1, Len(doc.body)) = doc.body
             /\ \A p \in DocPics(doc') : p = SignatureFile \/ p \in DocPics(doc)]_vars
    /\ [][(fs' # fs \/ dirs' # dirs) =>
             /\ pc = "save" /\ pc' = "done"
             /\ fs' = [fs EXCEPT ![output_path] = doc]
             /\ doc' = doc]_vars
    /\ [][pc # "done"]_vars

C12_Witness ==
    /\ pc = "done" /\ target_table # 0
    /\ DocPics(doc) \ {SignatureFile} # {}
    /\ doc.body[1] = PageBreak /\ doc.body[2] = SignatureHeading
    /\ fs[output_path] = doc /\ dirs

\* the cell after (r, c) of the template's target table holds exactly a slot
\* label, blanks aside
NextIsLabel(r, c) ==
    LET row == loaded.tables[target_table][r]
    IN c + 1 <= Len(row) /\ Strip(CellText(row[c + 1])) \in Labels

\* C14: when the scan processes a label cell whose next cell holds a label
\* too, the next cell is the destination: it loses its text and gets the
\* first label's images, it is not read as a label when the scan reaches it,
\* and the cell after it is left as it was.  The scan reads a cell as a
\* label only if the cell was not a destination before.
C14_AdjacentLabelIsDestination ==
    (Running /\ target_table # 0) =>
        /\ pc = "scan" =>
              LET row == doc.tables[target_table][ri]
              IN (Strip(CellText(row[ci + 1])) \in Labels /\ ci + 1 < Len(row))
                    <=> ReadAsLabel(ri, ci + 1)
        /\ pc = "place" => ReadAsLabel(ri, ci + 1)
        /\ Placed =>
              \A r \in 1..Len(loaded.tables[target_table]) :
                 \A c \in 1..Len(loaded.tables[target_table][r]) :
                    (ReadAsLabel(r, c) /\ NextIsLabel(r, c)) =>
                        LET row == doc.tables[target_table][r]
                        IN /\ Strip(CellText(row[c + 1])) \notin Labels
                           /\ \A i \in 1..Len(row[c + 1]) : row[c + 1][i].text = <<>>
                           /\ CellPics(row[c + 1]) = Existing(InRange(LabelOf(r, c)))
                           /\ ~ReadAsLabel(r, c + 1)
                           /\ c + 2 <= Len(row) =>
                                 row[c + 2] = loaded.tables[target_table][r][c + 2]

C14_Witness ==
    /\ pc = "done" /\ target_table # 0
    /\ loaded.tables[target_table] = TableB
    /\ {2, 3} \subseteq disk
    /\ fs[output_path].tables[target_table][2][2] =
          <<[text |-> <<>>, pics |-> <<2>>], Para(<<>>)>>
    /\ fs[output_path].tables[target_table][2][3] = Cell(<<"x">>)
    /\ 3 \notin DocPics(fs[output_path])

\* C15: the cell next to a label cell the scan has processed loses all its
\* text even when no image follows: with an empty range or no image of the
\* range on disk it ends with as many paragraphs as before, all empty and
\* without picture.  Before that label is processed the cell is as it was
\* in the template, and a cell that is next to no processed label never
\* changes.
C15_DestinationClearedOthersKept ==
    (Running /\ target_table # 0) =>
        \A r \in 1..Len(loaded.tables[target_table]) :
           \A c \in 1..Len(loaded.tables[target_table][r]) :
              LET before == loaded.tables[target_table][r][c]
                  now == doc.tables[target_table][r][c]
                  \* the scan has processed the label cell (r, c - 1)
                  processed ==
                      \/ Placed
                      \/ r < ri
                      \/ r = ri /\ ci > c - 2
                      \/ r = ri /\ ci = c - 2 /\ pc \in {"place", "raised"}
              IN IF c > 1 /\ ReadAsLabel(r, c - 1)
                 THEN /\ (processed /\ Existing(InRange(LabelOf(r, c - 1))) = <<>>) =>
                            now = [i \in 1..Len(before) |-> Para(<<>>)]
                      /\ processed => \A i \in 1..Len(now) : now[i].text = <<>>
                      /\ ~processed => now = before
                 ELSE now = before

C15_Witness ==
    /\ pc = "done" /\ target_table # 0
    /\ loaded.tables[target_table] = TableC
    /\ Len(images) >= 7 /\ 6 \notin disk /\ 7 \notin disk
    /\ fs[output_path].tables[target_table][2][2] = <<Para(<<>>), Para(<<>>), Para(<<>>)>>
    /\ fs[output_path].tables[target_table][3][2] = Cell(<<"keep">>)

\* C11: in app.main, fill_document is invoked only after run_automation has
\* returned the template path and the image list without raising; when
\* run_automation raises, main returns: fill_document is never called and no
\* final document is written or offered; the download is offered only after
\* fill_document returned without raising, with the output file written.
C11_AcquisitionBeforeComposition ==
    /\ [][(pc = "idle" /\ pc' # "idle") =>
             /\ app = "acquired" /\ app' = "composing"
             /\ ui = UiIdle
             /\ fs[template_path].exists
             /\ pc' = "start"]_vars
    /\ [](ui.step = "raised" =>
             /\ app \in {"acquiring", "acquire_failed"}
             /\ pc = "idle"
             /\ ~fs[OtherOutput].exists)
    /\ [][app # "acquire_failed"]_vars
    /\ [][(app # "offered" /\ app' = "offered") =>
             /\ app = "composing"
             /\ pc = "done" /\ err = ""]_vars
    /\ [](app = "offered" => pc = "done" /\ err = "" /\ fs[OtherOutput].exists)
    /\ [](app = "compose_failed" => pc = "raised" /\ ~fs[OtherOutput].exists)

\* the acquisition returned, fill_document returned and the download is offered
C11_Witness ==
    /\ app = "offered"
    /\ pc = "done"
    /\ fs[OtherOutput].exists
    /\ Len(images) > 0

\* a strategy list of a step has been tried to its end without a success
Exhausted(s) ==
    /\ Len(ui.log[s]) = Len(Strategies(s))
    /\ \A k \in 1..Len(ui.log[s]) : ~ui.log[s][k].ok

\* the code has left the step
StepOver(s) == ui.log[s] # <<>> /\ ui.step # s

\* C13: every UI-locating step (More, In mau, tick the third template, the
\* download link) tries its strategies in the fixed order, stops at the
\* first one that succeeds, and raises if and only if every strategy was
\* tried without success.
C13_StepFailsIffStrategiesExhausted ==
    \A s \in UISteps :
        /\ Len(ui.log[s]) <= Len(Strategies(s))
        /\ \A k \in 1..Len(ui.log[s]) :
              /\ ui.log[s][k].strategy = Strategies(s)[k]
              /\ k < Len(ui.log[s]) => ~ui.log[s][k].ok
        /\ StepOver(s) =>
              (Exhausted(s) <=> (ui.step = "raised" /\ ui.failed = s))

==========================================================================
